---- MODULE Spec2Model ----
(***************************************************************************)
(* A model of the specklepy stream/object resource clients, the local      *)
(* credentials helpers and the Streamlit dashboard script.                 *)
(*                                                                         *)
(*   Spec       one client: calls of the stream and object resources       *)
(*   CredSpec   get_local_accounts / get_default_account                   *)
(*   DashSpec   one run of front_end/main.py, statement block by block     *)
(*   StatsSpec  the statistics blocks of the run on larger fetched data    *)
(***************************************************************************)
EXTENDS Integers, Sequences, FiniteSets, TLC

VARIABLES
    server_version,  \* Resource.server_version, fixed at construction
    lastCall,        \* the resource call that ran last, with what it emitted
    accounts,        \* the accounts of the local store, in stored order
    credCall,        \* the credentials call that ran last
    dash             \* the script variables of one dashboard run

vars == <<server_version, lastCall, accounts, credCall, dash>>

(***************************************************************************)
(* Bounds of the model                                                     *)
(***************************************************************************)
MaxVerLen == 3       \* longest version tuple
MaxAccounts == 4     \* most accounts in the local store
MaxStreams == 2      \* most streams the server lists in a run
MaxRunCommits == 1   \* most commits fetched in a full run (DashSpec)
MaxCommits == 3      \* most commits fetched (StatsSpec)
MaxTime == 4         \* latest createdAt instant, in half days
DayLen == 2          \* createdAt instants per calendar day

(***************************************************************************)
(* Server versions and the version gate of grant_permission                *)
(***************************************************************************)
Threshold == <<2, 6, 4>>

NoVersion == [kind |-> "none", parts |-> <<>>]
DevVersion == [kind |-> "dev", parts |-> <<>>]

\* the values component i of a version tuple takes in the model: the
\* threshold's component and its two neighbours
Comp(i) ==
    IF i <= Len(Threshold)
    THEN (Threshold[i] - 1) .. (Threshold[i] + 1)
    ELSE 0 .. 1

NumTuples ==
    UNION { { s \in [1..n -> 0 .. (Threshold[2] + 1)] :
                \A i \in 1..n : s[i] \in Comp(i) } : n \in 0..MaxVerLen }

Versions ==
    {NoVersion, DevVersion} \cup { [kind |-> "num", parts |-> p] : p \in NumTuples }

\* Python's ordering of tuples: the first differing element decides, and a
\* proper prefix is the smaller tuple.
RECURSIVE TupleLess(_, _)
TupleLess(a, b) ==
    IF b = <<>> THEN FALSE
    ELSE IF a = <<>> THEN TRUE
    ELSE IF Head(a) # Head(b) THEN Head(a) < Head(b)
    ELSE TupleLess(Tail(a), Tail(b))

TupleGE(a, b) == ~TupleLess(a, b)

\* `if self.server_version`: None and the empty tuple are falsy
Truthy(v) == v.kind = "dev" \/ (v.kind = "num" /\ v.parts # <<>>)

\* a mutant of VersionGate: strictly above the threshold
VersionGateStrict(v) ==
    Truthy(v) /\ (v.kind = "dev" \/ TupleLess(Threshold, v.parts))

VersionGate(v) ==
    Truthy(v) /\ (v.kind = "dev" \/ TupleGE(v.parts, Threshold))

(***************************************************************************)
(* Calls, tracking events and requests                                     *)
(***************************************************************************)
STREAM == "STREAM"
PERMISSION == "PERMISSION"
INVITE == "INVITE"

StreamIds == {"s1", "s2"}
UserIds == {"u1", "u2"}
Roles == {"stream:owner", "stream:reviewer"}
ObjectIds == {"o1", "o2"}

\* what the Request Executor answers
Responses ==
    { [status |-> "ok", value |-> "true"],
      [status |-> "ok", value |-> "false"],
      [status |-> "graphql_error", value |-> "-"],
      [status |-> "transport_error", value |-> "-"] }

NoResult == [value |-> "-", parsed |-> FALSE]
NoAnswer == [status |-> "-", value |-> "-"]

\* a finished call: how the tracking call went ("-" when there is none), the
\* events emitted, the requests handed to the Request Executor, its answer,
\* and what the caller got
NoCall ==
    [op |-> "-", args |-> [none |-> "-"], tracking |-> "-", events |-> <<>>,
     requests |-> <<>>, answer |-> NoAnswer,
     outcome |-> "none", error |-> "-", result |-> NoResult]

Event(category, name, role) == [category |-> category, name |-> name, role |-> role]

\* the call ends by raising `error` before any request is made
Raise(op, args, tracking, error, events) ==
    [op |-> op, args |-> args, tracking |-> tracking, events |-> events,
     requests |-> <<>>, answer |-> NoAnswer,
     outcome |-> "raised", error |-> error, result |-> NoResult]

\* ResourceBase.make_request: one request handed to the Request Executor; its
\* answer unwrapped at return_type, or its failure surfaced.
MakeRequest(op, args, tracking, events, operation, params, return_type, parse_response, r) ==
    [op |-> op, args |-> args, tracking |-> tracking, events |-> events,
     requests |-> <<[operation |-> operation, params |-> params]>>, answer |-> r,
     outcome |-> IF r.status = "ok" THEN "returned" ELSE "raised",
     error |-> IF r.status = "ok" THEN "-" ELSE "ServiceError",
     result |-> IF r.status = "ok"
                THEN [value |-> r.value, parsed |-> parse_response]
                ELSE NoResult]

\* the operation of the core stream resource a wrapper delegates to
CoreCall(op, args, events, r) ==
    MakeRequest(op, args, "ok", events, op, args, <<op>>, TRUE, r)

\* metrics.track(...) followed by `return super().<op>(...)`
Tracked(op, event, args, trackOk, r) ==
    IF ~trackOk
    THEN Raise(op, args, "failed", "TrackingError", <<>>)
    ELSE CoreCall(op, args, <<event>>, r)

(***************************************************************************)
(* The stream resource (specklepy/api/resources/stream.py)                 *)
(***************************************************************************)
\* the tracking event of each wrapper of the stream resource
TrackTag(op) ==
    CASE op = "get" -> Event(STREAM, "get", "-")
      [] op = "list" -> Event(STREAM, "get", "-")
      [] op = "create" -> Event(STREAM, "create", "-")
      [] op = "update" -> Event(STREAM, "update", "-")
      [] op = "delete" -> Event(STREAM, "delete", "-")
      [] op = "search" -> Event(STREAM, "search", "-")
      [] op = "favorite" -> Event(STREAM, "favorite", "-")
      [] op = "get_all_pending_invites" -> Event(INVITE, "get", "-")
      [] op = "invite" -> Event(INVITE, "create", "-")
      [] op = "invite_batch" -> Event(INVITE, "batch create", "-")
      [] op = "invite_cancel" -> Event(INVITE, "cancel", "-")
      [] op = "invite_use" -> Event(INVITE, "use", "-")
      [] op = "revoke_permission" -> Event(PERMISSION, "revoke", "-")

others == <<server_version, accounts, credCall, dash>>

Get ==
    \E id \in StreamIds, trackOk \in BOOLEAN, r \in Responses :
        /\ lastCall' = Tracked("get", TrackTag("get"), [id |-> id], trackOk, r)
        /\ UNCHANGED others

List ==
    \E trackOk \in BOOLEAN, r \in Responses :
        /\ lastCall' = Tracked("list", TrackTag("list"), [stream_limit |-> "10"], trackOk, r)
        /\ UNCHANGED others

Create ==
    \E trackOk \in BOOLEAN, r \in Responses :
        /\ lastCall' = Tracked("create", TrackTag("create"),
                        [name |-> "Anonymous Python Stream"], trackOk, r)
        /\ UNCHANGED others

Update ==
    \E id \in StreamIds, trackOk \in BOOLEAN, r \in Responses :
        /\ lastCall' = Tracked("update", TrackTag("update"), [id |-> id], trackOk, r)
        /\ UNCHANGED others

Delete ==
    \E id \in StreamIds, trackOk \in BOOLEAN, r \in Responses :
        /\ lastCall' = Tracked("delete", TrackTag("delete"), [id |-> id], trackOk, r)
        /\ UNCHANGED others

Search ==
    \E q \in StreamIds, trackOk \in BOOLEAN, r \in Responses :
        /\ lastCall' = Tracked("search", TrackTag("search"), [search_query |-> q], trackOk, r)
        /\ UNCHANGED others

Favorite ==
    \E id \in StreamIds, trackOk \in BOOLEAN, r \in Responses :
        /\ lastCall' = Tracked("favorite", TrackTag("favorite"), [stream_id |-> id], trackOk, r)
        /\ UNCHANGED others

GrantPermissionParams(stream_id, user_id, role) ==
    [permission_params |-> [streamId |-> stream_id, userId |-> user_id, role |-> role]]

\* a mutant of GrantPermissionCall: the request is sent again when it fails
GrantPermissionRetry(stream_id, user_id, role, trackOk, r) ==
    LET args == [stream_id |-> stream_id, user_id |-> user_id, role |-> role]
        ev == Event(PERMISSION, "add", role)
        once == MakeRequest("grant_permission", args, "ok", <<ev>>,
                            "StreamGrantPermission",
                            GrantPermissionParams(stream_id, user_id, role),
                            <<"streamGrantPermission">>, FALSE, r)
    IN  IF ~trackOk THEN Raise("grant_permission", args, "failed", "TrackingError", <<>>)
        ELSE IF VersionGate(server_version)
        THEN Raise("grant_permission", args, "ok", "UnsupportedException", <<ev>>)
        ELSE IF once.outcome = "raised"
        THEN [once EXCEPT !.requests = once.requests \o once.requests]
        ELSE once

\* a mutant of GrantPermissionCall: the version gate runs before the tracking
GrantPermissionGateFirst(stream_id, user_id, role, trackOk, r) ==
    LET args == [stream_id |-> stream_id, user_id |-> user_id, role |-> role]
        ev == Event(PERMISSION, "add", role)
    IN  IF VersionGate(server_version)
        THEN Raise("grant_permission", args, "-", "UnsupportedException", <<>>)
        ELSE IF ~trackOk
        THEN Raise("grant_permission", args, "failed", "TrackingError", <<>>)
        ELSE MakeRequest("grant_permission", args, "ok", <<ev>>, "StreamGrantPermission",
                         GrantPermissionParams(stream_id, user_id, role),
                         <<"streamGrantPermission">>, FALSE, r)

\* the whole body of grant_permission: track, gate, then the one mutation
GrantPermissionCall(stream_id, user_id, role, trackOk, r) ==
    LET args == [stream_id |-> stream_id, user_id |-> user_id, role |-> role]
        ev == Event(PERMISSION, "add", role)
    IN  IF ~trackOk THEN Raise("grant_permission", args, "failed", "TrackingError", <<>>)
        ELSE IF VersionGate(server_version)
        THEN Raise("grant_permission", args, "ok", "UnsupportedException", <<ev>>)
        ELSE MakeRequest("grant_permission", args, "ok", <<ev>>, "StreamGrantPermission",
                         GrantPermissionParams(stream_id, user_id, role),
                         <<"streamGrantPermission">>, FALSE, r)

GrantPermission ==
    \E s \in StreamIds, u \in UserIds, role \in Roles,
       trackOk \in BOOLEAN, r \in Responses :
        /\ lastCall' = GrantPermissionCall(s, u, role, trackOk, r)
        /\ UNCHANGED others

GetAllPendingInvites ==
    \E id \in StreamIds, trackOk \in BOOLEAN, r \in Responses :
        /\ lastCall' = Tracked("get_all_pending_invites", TrackTag("get_all_pending_invites"),
                        [stream_id |-> id], trackOk, r)
        /\ UNCHANGED others

Invite ==
    \E id \in StreamIds, trackOk \in BOOLEAN, r \in Responses :
        /\ lastCall' = Tracked("invite", TrackTag("invite"),
                        [stream_id |-> id, user_id |-> "u1", role |-> "stream:contributor"],
                        trackOk, r)
        /\ UNCHANGED others

InviteBatch ==
    \E id \in StreamIds, trackOk \in BOOLEAN, r \in Responses :
        /\ lastCall' = Tracked("invite_batch", TrackTag("invite_batch"),
                        [stream_id |-> id], trackOk, r)
        /\ UNCHANGED others

InviteCancel ==
    \E id \in StreamIds, trackOk \in BOOLEAN, r \in Responses :
        /\ lastCall' = Tracked("invite_cancel", TrackTag("invite_cancel"),
                        [stream_id |-> id, invite_id |-> "i1"], trackOk, r)
        /\ UNCHANGED others

InviteUse ==
    \E id \in StreamIds, trackOk \in BOOLEAN, r \in Responses :
        /\ lastCall' = Tracked("invite_use", TrackTag("invite_use"),
                        [stream_id |-> id, token |-> "t1", accept |-> "True"], trackOk, r)
        /\ UNCHANGED others

UpdatePermission ==
    \E id \in StreamIds, role \in Roles, trackOk \in BOOLEAN, r \in Responses :
        /\ lastCall' = Tracked("update_permission", Event(PERMISSION, "update", role),
                        [stream_id |-> id, user_id |-> "u1", role |-> role], trackOk, r)
        /\ UNCHANGED others

RevokePermission ==
    \E id \in StreamIds, trackOk \in BOOLEAN, r \in Responses :
        /\ lastCall' = Tracked("revoke_permission", TrackTag("revoke_permission"),
                        [stream_id |-> id, user_id |-> "u1"], trackOk, r)
        /\ UNCHANGED others

(***************************************************************************)
(* The object resource (speckle/api/resources/object.py): no tracking      *)
(***************************************************************************)
ObjectGetCall(stream_id, object_id, r) ==
    LET params == [stream_id |-> stream_id, object_id |-> object_id] IN
    MakeRequest("object.get", params, "-", <<>>, "Object", params,
                <<"stream", "object">>, TRUE, r)

ObjectGet ==
    \E s \in StreamIds, o \in ObjectIds, r \in Responses :
        /\ lastCall' = ObjectGetCall(s, o, r)
        /\ UNCHANGED others

ObjectCreateCall(stream_id, objects, r) ==
    MakeRequest("object.create", [stream_id |-> stream_id, objects |-> objects], "-", <<>>,
                "ObjectCreate",
                [object_input |-> [streamId |-> stream_id, objects |-> objects]],
                <<"objectCreate">>, FALSE, r)

ObjectCreate ==
    \E s \in StreamIds, objs \in {<<>>, <<"o1">>}, r \in Responses :
        /\ lastCall' = ObjectCreateCall(s, objs, r)
        /\ UNCHANGED others

ClientInit ==
    /\ server_version \in Versions
    /\ lastCall = NoCall

ClientNext ==
    \/ Get \/ List \/ Create \/ Update \/ Delete \/ Search \/ Favorite
    \/ GrantPermission \/ GetAllPendingInvites \/ Invite \/ InviteBatch
    \/ InviteCancel \/ InviteUse \/ UpdatePermission \/ RevokePermission
    \/ ObjectGet \/ ObjectCreate

(***************************************************************************)
(* Local credentials (specklepy/api/credentials.py)                        *)
(***************************************************************************)
\* the stores core_get_local_accounts can load: up to MaxAccounts accounts,
\* each with its isDefault flag
AccountLists ==
    UNION { { [i \in 1..n |-> [id |-> i, isDefault |-> f[i]]] : f \in [1..n -> BOOLEAN] } :
            n \in 0..MaxAccounts }

NoCredCall ==
    [op |-> "-", outcome |-> "none", error |-> "-", result |-> <<>>, tracked |-> <<>>]

\* next((acc for acc in accounts if acc.isDefault), dflt) as a list of 0 or 1
FirstDefault(accs, dflt) ==
    IF \E i \in 1..Len(accs) : accs[i].isDefault
    THEN LET i == CHOOSE k \in 1..Len(accs) :
                    /\ accs[k].isDefault
                    /\ \A j \in 1..(k - 1) : ~accs[j].isDefault
         IN  <<accs[i]>>
    ELSE dflt

GetLocalAccountsCall(accs, trackOk) ==
    LET who == FirstDefault(accs, IF accs # <<>> THEN <<accs[1]>> ELSE <<>>) IN
    IF ~trackOk
    THEN [op |-> "get_local_accounts", outcome |-> "raised", error |-> "TrackingError",
          result |-> <<>>, tracked |-> <<>>]
    ELSE [op |-> "get_local_accounts", outcome |-> "returned", error |-> "-",
          result |-> accs, tracked |-> who]

GetLocalAccounts ==
    \E trackOk \in BOOLEAN :
        /\ credCall' = GetLocalAccountsCall(accounts, trackOk)
        /\ UNCHANGED <<server_version, lastCall, accounts, dash>>

\* a mutant of GetDefaultAccountCall: the fallback account is returned as loaded
GetDefaultAccountNoFlag(accs) ==
    LET found == FirstDefault(accs, <<>>)
        default == IF found # <<>> THEN found ELSE <<accs[1]>>
    IN  IF accs = <<>>
        THEN [op |-> "get_default_account", outcome |-> "returned", error |-> "-",
              result |-> <<>>, tracked |-> <<>>]
        ELSE [op |-> "get_default_account", outcome |-> "returned", error |-> "-",
              result |-> default, tracked |-> default]

\* the result is <<>> for None and <<account>> otherwise; `tracked` is the
\* account handed to metrics.initialise_tracker
GetDefaultAccountCall(accs) ==
    LET found == FirstDefault(accs, <<>>)
        default == IF found # <<>> THEN found
                   ELSE <<[accs[1] EXCEPT !.isDefault = TRUE]>>
    IN  IF accs = <<>>
        THEN [op |-> "get_default_account", outcome |-> "returned", error |-> "-",
              result |-> <<>>, tracked |-> <<>>]
        ELSE [op |-> "get_default_account", outcome |-> "returned", error |-> "-",
              result |-> default, tracked |-> default]

GetDefaultAccount ==
    /\ credCall' = GetDefaultAccountCall(accounts)
    /\ UNCHANGED <<server_version, lastCall, accounts, dash>>

CredInit ==
    /\ accounts \in AccountLists
    /\ credCall = NoCredCall

CredNext == GetLocalAccounts \/ GetDefaultAccount

(***************************************************************************)
(* The dashboard script (front_end/main.py)                                *)
(***************************************************************************)
StreamNames == {"A", "B"}
Apps == {"Rhino", "Grasshopper"}

Seqs(S, n) == UNION { [1..k -> S] : k \in 0..n }

\* the answers of stream.list: the names of up to MaxStreams streams
StreamNameLists == Seqs(StreamNames, MaxStreams)

\* collaborators of a stream: distinct users, whose names may coincide
CollaboratorLists ==
    { [i \in 1..Len(ns) |-> [id |-> i, name |-> ns[i]]] : ns \in Seqs({"Ann", "Bob"}, 2) }

\* the answers of stream.search: no stream, or one stream
SearchResults ==
    {<<>>} \cup { <<[id |-> "s1", name |-> n, collaborators |-> cl]>> :
                    n \in StreamNames, cl \in CollaboratorLists }

BranchLists == { <<>>, <<"main">>, <<"main", "dev">> }

\* the answers of commit.list: up to n commits, each with the application
\* that sent it and the instant it was created
CommitLists(n) ==
    { [i \in 1..Len(cs) |-> [id |-> i, sourceApplication |-> cs[i][1],
                             createdAt |-> cs[i][2]]] :
        cs \in Seqs(Apps \X (0..MaxTime), n) }

Unset == 0 - 1

NoShown ==
    [viewer |-> <<>>, branchNames |-> <<>>, commitCount |-> Unset,
     connectorCount |-> Unset, connectorNames |-> <<>>,
     contributorCount |-> Unset, contributorNames |-> <<>>,
     timeline |-> <<>>, charts |-> {}]

DashStart ==
    [pc |-> "start", calls |-> <<>>, error |-> "-",
     streamNames |-> <<>>, sName |-> <<>>, searchDone |-> FALSE, results |-> <<>>,
     found |-> <<>>,
     branches |-> <<>>, commitLimit |-> "-", commits |-> <<>>, shown |-> NoShown]

\* an uncaught exception ends the script where it is raised
Crash(d, call, error) ==
    [d EXCEPT !.pc = "crashed", !.error = error,
              !.calls = IF call = "-" THEN @ ELSE Append(@, call)]

rest == <<server_version, lastCall, accounts, credCall>>

\* lines 58-62: client, account from token, authenticate_with_account
Authenticate ==
    /\ dash.pc = "start"
    /\ \E ok \in BOOLEAN :
        dash' = IF ok
                THEN [dash EXCEPT !.pc = "authenticated",
                                  !.calls = Append(@, "authenticate")]
                ELSE Crash(dash, "authenticate", "ServiceError")
    /\ UNCHANGED rest

\* lines 67-70: streams = client.stream.list(); streamNames
ListStreams ==
    /\ dash.pc = "authenticated"
    /\ \E trackOk \in BOOLEAN, r \in Responses, names \in StreamNameLists :
        LET c == Tracked("list", TrackTag("list"), [stream_limit |-> "10"], trackOk, r) IN
        dash' = IF c.outcome = "raised"
                THEN Crash(dash, "stream.list", c.error)
                ELSE [dash EXCEPT !.pc = "listed",
                                  !.calls = Append(@, "stream.list"),
                                  !.streamNames = names]
    /\ UNCHANGED rest

\* line 72: st.selectbox returns the option the operator picked, None when
\* there is no option
SelectStream ==
    /\ dash.pc = "listed"
    /\ \E pick \in IF dash.streamNames = <<>> THEN {<<>>}
                   ELSE { <<dash.streamNames[i]>> : i \in 1..Len(dash.streamNames) } :
        dash' = [dash EXCEPT !.pc = "selected", !.sName = pick]
    /\ UNCHANGED rest

\* a mutant of SearchFirst: an empty result is searched for once more
SearchFirstAgain(d, res) ==
    IF res = <<>>
    THEN [Crash([d EXCEPT !.calls = Append(@, "stream.search")],
                "stream.search", "IndexError")
            EXCEPT !.searchDone = TRUE, !.results = res]
    ELSE [d EXCEPT !.pc = "searched", !.calls = Append(@, "stream.search"),
                   !.searchDone = TRUE, !.results = res, !.found = <<res[1]>>]

\* line 75: `client.stream.search(sName)[0]`
SearchFirst(d, res) ==
    IF res = <<>>
    THEN [Crash(d, "stream.search", "IndexError") EXCEPT !.searchDone = TRUE, !.results = res]
    ELSE [d EXCEPT !.pc = "searched", !.calls = Append(@, "stream.search"),
                   !.searchDone = TRUE, !.results = res, !.found = <<res[1]>>]

SearchStream ==
    /\ dash.pc = "selected"
    /\ \E trackOk \in BOOLEAN, r \in Responses, res \in SearchResults :
        LET c == Tracked("search", TrackTag("search"),
                         [search_query |-> dash.sName], trackOk, r) IN
        dash' = IF c.outcome = "raised"
                THEN Crash(dash, "stream.search", c.error)
                ELSE SearchFirst(dash, res)
    /\ UNCHANGED rest

\* line 78: branches = client.branch.list(stream.id)
ListBranches ==
    /\ dash.pc = "searched"
    /\ \E trackOk \in BOOLEAN, r \in Responses, bs \in BranchLists :
        LET c == Tracked("branch.list", Event("BRANCH", "get", "-"),
                         [stream_id |-> dash.found[1].id], trackOk, r) IN
        dash' = IF c.outcome = "raised"
                THEN Crash(dash, "branch.list", c.error)
                ELSE [dash EXCEPT !.pc = "branched",
                                  !.calls = Append(@, "branch.list"),
                                  !.branches = bs]
    /\ UNCHANGED rest

\* line 80: commits = client.commit.list(stream.id, limit=100)
ListCommits ==
    /\ dash.pc = "branched"
    /\ \E trackOk \in BOOLEAN, r \in Responses, cs \in CommitLists(MaxRunCommits) :
        LET c == Tracked("commit.list", Event("COMMIT", "get", "-"),
                         [stream_id |-> dash.found[1].id, limit |-> "100"], trackOk, r) IN
        dash' = IF c.outcome = "raised"
                THEN [Crash(dash, "commit.list", c.error) EXCEPT
                                  !.commitLimit = c.args.limit]
                ELSE [dash EXCEPT !.pc = "fetched",
                                  !.calls = Append(@, "commit.list"),
                                  !.commitLimit = c.args.limit,
                                  !.commits = cs]
    /\ UNCHANGED rest

\* a mutant of Viewer: without a commit the viewer is left out
ViewerSkipsEmpty ==
    /\ dash.pc = "fetched"
    /\ dash' = IF dash.commits = <<>>
               THEN [dash EXCEPT !.pc = "viewed"]
               ELSE [dash EXCEPT !.pc = "viewed",
                                 !.shown.viewer = <<dash.found[1].id, dash.commits[1].id>>]
    /\ UNCHANGED rest

\* lines 93-95: commit2viewer(stream, commits[0])
Viewer ==
    /\ dash.pc = "fetched"
    /\ dash' = IF dash.commits = <<>>
               THEN Crash(dash, "-", "IndexError")
               ELSE [dash EXCEPT !.pc = "viewed",
                                 !.shown.viewer = <<dash.found[1].id, dash.commits[1].id>>]
    /\ UNCHANGED rest

\* lines 111-114: branch card
BranchCard ==
    /\ dash.pc = "viewed"
    /\ dash' = [dash EXCEPT !.pc = "branch_card", !.shown.branchNames = dash.branches]
    /\ UNCHANGED rest

\* line 117: commit card
CommitCard ==
    /\ dash.pc = "branch_card"
    /\ dash' = [dash EXCEPT !.pc = "commit_card", !.shown.commitCount = Len(dash.commits)]
    /\ UNCHANGED rest

\* a mutant of DictFromKeys: nothing is dropped
KeepAll(xs) == xs

\* list(dict.fromkeys(xs)): the different values of xs, each at the place of
\* its first occurrence
RECURSIVE DictFromKeys(_)
DictFromKeys(xs) ==
    IF xs = <<>> THEN <<>>
    ELSE LET front == DictFromKeys(SubSeq(xs, 1, Len(xs) - 1))
             x == xs[Len(xs)]
         IN  IF \E i \in 1..Len(front) : front[i] = x THEN front ELSE Append(front, x)

\* lines 121-127: connector card
ConnectorCard ==
    /\ dash.pc = "commit_card"
    /\ LET connectorList == [i \in 1..Len(dash.commits) |-> dash.commits[i].sourceApplication]
       IN  dash' = [dash EXCEPT !.pc = "connector_card",
                                !.shown.connectorCount = Len(DictFromKeys(connectorList)),
                                !.shown.connectorNames = DictFromKeys(connectorList)]
    /\ UNCHANGED rest

\* lines 130-134: contributor card
ContributorCard ==
    /\ dash.pc = "connector_card"
    /\ LET cols == dash.found[1].collaborators IN
       dash' = [dash EXCEPT !.pc = "contributor_card",
                            !.shown.contributorCount = Len(cols),
                            !.shown.contributorNames =
                                DictFromKeys([i \in 1..Len(cols) |-> cols[i].name])]
    /\ UNCHANGED rest

\* lines 143-154: branch graph; naming the two columns of a frame built from
\* no branch raises
BranchGraph ==
    /\ dash.pc = "contributor_card"
    /\ dash' = IF dash.branches = <<>>
               THEN Crash(dash, "-", "ValueError")
               ELSE [dash EXCEPT !.pc = "branch_graph",
                                 !.shown.charts = @ \cup {"branches"}]
    /\ UNCHANGED rest

\* lines 157-173: connector donut
ConnectorChart ==
    /\ dash.pc = "branch_graph"
    /\ dash' = [dash EXCEPT !.pc = "connector_chart", !.shown.charts = @ \cup {"apps"}]
    /\ UNCHANGED rest

\* lines 177-187: collaborator donut
CollaboratorChart ==
    /\ dash.pc = "connector_chart"
    /\ dash' = [dash EXCEPT !.pc = "collaborator_chart",
                            !.shown.charts = @ \cup {"authors"}]
    /\ UNCHANGED rest

\* pd.to_datetime(commits["createdAt"]).dt.date
CommitDates(cs) == [i \in 1..Len(cs) |-> cs[i].createdAt \div DayLen]

\* Series.value_counts(): each value present, with how often it occurs
ValueCounts(ds) ==
    [d \in {ds[i] : i \in 1..Len(ds)} |-> Cardinality({i \in 1..Len(ds) : ds[i] = d})]

SetMin(S) == CHOOSE x \in S : \A y \in S : x <= y
SetMax(S) == CHOOSE x \in S : \A y \in S : x >= y

\* a mutant of DateRange: the end day is left out
DateRangeOpenEnd(lo, hi) == [k \in 1..(hi - lo) |-> lo + k - 1]

\* pd.date_range(start, end): every day from start to end, both included
DateRange(lo, hi) == [k \in 1..(hi - lo + 1) |-> lo + k - 1]

\* set_index(...).reindex(idx, fill_value=fill), then reset_index and the
\* column names "date" and "count"
Reindex(vc, idx, fill) ==
    [k \in 1..Len(idx) |->
        [date |-> idx[k], count |-> IF idx[k] \in DOMAIN vc THEN vc[idx[k]] ELSE fill]]

\* lines 190-204: the daily commit time series
Timeline ==
    /\ dash.pc = "collaborator_chart"
    /\ LET cdate == ValueCounts(CommitDates(dash.commits))
           null_days == DateRange(SetMin(DOMAIN cdate), SetMax(DOMAIN cdate))
       IN  dash' = [dash EXCEPT !.pc = "timeline",
                                !.shown.timeline = Reindex(cdate, null_days, 0)]
    /\ UNCHANGED rest

\* lines 208-212: line chart of the series
LineChart ==
    /\ dash.pc = "timeline"
    /\ dash' = [dash EXCEPT !.pc = "done", !.shown.charts = @ \cup {"timeline"}]
    /\ UNCHANGED rest

StatsNext ==
    \/ ConnectorCard \/ ContributorCard \/ BranchGraph \/ ConnectorChart
    \/ CollaboratorChart \/ Timeline \/ LineChart

DashNext ==
    \/ Authenticate \/ ListStreams \/ SelectStream \/ SearchStream
    \/ ListBranches \/ ListCommits \/ Viewer \/ BranchCard \/ CommitCard
    \/ StatsNext

Init ==
    /\ ClientInit
    /\ accounts = <<>>
    /\ credCall = NoCredCall
    /\ dash = DashStart

Next == ClientNext

Spec == Init /\ [][Next]_vars

CredSpecInit ==
    /\ CredInit
    /\ server_version = NoVersion
    /\ lastCall = NoCall
    /\ dash = DashStart

CredSpec == CredSpecInit /\ [][CredNext]_vars

DashInit ==
    /\ server_version = NoVersion
    /\ lastCall = NoCall
    /\ accounts = <<>>
    /\ credCall = NoCredCall
    /\ dash = DashStart

DashSpec == DashInit /\ [][DashNext]_vars

\* the run after the commit card, for any stream found and any commits
\* fetched (the viewer needs one commit at least)
StatsInit ==
    /\ server_version = NoVersion
    /\ lastCall = NoCall
    /\ accounts = <<>>
    /\ credCall = NoCredCall
    /\ \E res \in { r \in SearchResults : r # <<>> /\ r[1].name = "A" },
          bs \in {<<"main">>}, cs \in CommitLists(MaxCommits) \ {<<>>} :
        dash = [DashStart EXCEPT
                  !.pc = "commit_card",
                  !.calls = <<"authenticate", "stream.list", "stream.search",
                              "branch.list", "commit.list">>,
                  !.streamNames = <<res[1].name>>, !.sName = <<res[1].name>>,
                  !.searchDone = TRUE, !.results = res,
                  !.found = res, !.branches = bs,
                  !.commitLimit = "100", !.commits = cs,
                  !.shown.viewer = <<res[1].id, cs[1].id>>,
                  !.shown.branchNames = bs,
                  !.shown.commitCount = Len(cs)]

StatsSpec == StatsInit /\ [][StatsNext]_vars

(***************************************************************************)
(* Properties of the resource clients (Spec)                               *)
(***************************************************************************)
\* the version, read as a server release, is 2.6.4 or later: a missing
\* component counts below every number
AtOrAbove264(p) ==
    LET c(i) == IF i <= Len(p) THEN p[i] ELSE -1 IN
    \/ c(1) > 2
    \/ c(1) = 2 /\ c(2) > 6
    \/ c(1) = 2 /\ c(2) = 6 /\ c(3) >= 4

\* C1: a grant_permission call against a server whose version is at or above
\* 2.6.4 raises UnsupportedException and hands no request to the Request
\* Executor.
C1_DeprecatedCallRaisesUnsupported ==
    ( /\ lastCall.op = "grant_permission"
      /\ server_version.kind = "num"
      /\ AtOrAbove264(server_version.parts) )
    => ( /\ lastCall.outcome = "raised"
         /\ lastCall.error = "UnsupportedException"
         /\ lastCall.requests = <<>> )

\* C2: when the tracking call of an operation raises, the operation still
\* makes its primary request and the tracking failure does not reach the
\* caller.
C2_TrackingFailureHarmless ==
    lastCall.tracking = "failed"
    => ( /\ lastCall.error # "TrackingError"
         /\ Len(lastCall.requests) = 1
         /\ (lastCall.answer.status = "ok" => lastCall.outcome = "returned") )

\* the wrappers that track in the stream category
StreamTagged == {"get", "list", "create", "update", "delete", "search", "favorite"}

\* every wrapper whose tag is a fixed pair of category and name
Tagged ==
    StreamTagged \cup {"get_all_pending_invites", "invite", "invite_batch",
                       "invite_cancel", "invite_use", "revoke_permission"}

\* C6: a call whose tracking call went through has emitted exactly one event;
\* in the stream category the event carries the name of the operation called,
\* and no other operation emits the same category and name.
C6_OneEventNamedAfterOperation ==
    ( lastCall.op \in StreamTagged /\ lastCall.tracking = "ok" )
    => ( /\ Len(lastCall.events) = 1
         /\ lastCall.events[1].category = STREAM
         /\ lastCall.events[1].name = lastCall.op
         /\ \A o \in Tagged \ {lastCall.op} : TrackTag(o) # lastCall.events[1] )

\* C9: a call hands at most one request to the Request Executor, and when the
\* executor answers with a failure the call raises ServiceError having sent
\* that one request only.
C9_AtMostOneRequestNoRetry ==
    /\ Len(lastCall.requests) <= 1
    /\ lastCall.answer.status \in {"graphql_error", "transport_error"}
       => ( /\ lastCall.outcome = "raised"
            /\ lastCall.error = "ServiceError"
            /\ Len(lastCall.requests) = 1 )

C9_Witness ==
    /\ lastCall.op = "grant_permission"
    /\ lastCall.answer.status = "graphql_error"
    /\ lastCall.outcome = "raised"
    /\ Len(lastCall.requests) = 1

\* C10: once grant_permission evaluates its version gate, it rejects exactly
\* when the version is known and is 'dev' or at least 2.6.4; otherwise it
\* sends one StreamGrantPermission request built from the arguments and
\* returns the answer's value unparsed.
C10_VersionGate ==
    ( lastCall.op = "grant_permission" /\ lastCall.tracking = "ok" )
    => LET a == lastCall.args
           v == server_version
           rejects == \/ v.kind = "dev"
                      \/ v.kind = "num" /\ v.parts # <<>> /\ AtOrAbove264(v.parts)
       IN  IF rejects
           THEN /\ lastCall.outcome = "raised"
                /\ lastCall.error = "UnsupportedException"
                /\ lastCall.requests = <<>>
           ELSE /\ lastCall.requests =
                     << [operation |-> "StreamGrantPermission",
                         params |-> [permission_params |->
                                        [streamId |-> a.stream_id,
                                         userId |-> a.user_id,
                                         role |-> a.role]]] >>
                /\ lastCall.error # "UnsupportedException"
                /\ lastCall.answer.status = "ok"
                   => ( /\ lastCall.outcome = "returned"
                        /\ lastCall.result =
                             [value |-> lastCall.answer.value, parsed |-> FALSE] )

C10_Witness ==
    /\ lastCall.op = "grant_permission"
    /\ server_version = [kind |-> "num", parts |-> <<2, 6, 3>>]
    /\ lastCall.outcome = "returned"
    /\ Len(lastCall.requests) = 1

(***************************************************************************)
(* Properties of the credentials helpers (CredSpec)                        *)
(***************************************************************************)
\* C7: get_default_account returns None without local accounts; otherwise the
\* first account flagged isDefault, or, when none is flagged, the first
\* account with its flag set. A returned account always has isDefault set.
C7_DefaultAccount ==
    credCall.op = "get_default_account"
    => /\ credCall.outcome = "returned"
       /\ accounts = <<>> => credCall.result = <<>>
       /\ accounts # <<>>
          => /\ Len(credCall.result) = 1
             /\ credCall.result[1].isDefault
             /\ \A k \in 1..Len(accounts) :
                   ( accounts[k].isDefault
                     /\ \A j \in 1..(k - 1) : ~accounts[j].isDefault )
                   => credCall.result[1] = accounts[k]
             /\ (\A k \in 1..Len(accounts) : ~accounts[k].isDefault)
                => credCall.result[1] = [id |-> accounts[1].id, isDefault |-> TRUE]

C7_Witness ==
    /\ credCall.op = "get_default_account"
    /\ Len(accounts) >= 2
    /\ \A k \in 1..Len(accounts) : ~accounts[k].isDefault
    /\ credCall.result = <<[id |-> accounts[1].id, isDefault |-> TRUE]>>

(***************************************************************************)
(* Properties of the dashboard run (DashSpec, StatsSpec)                   *)
(***************************************************************************)
\* C3: when the search for the selected stream name returns no stream, the
\* script does not crash. (The script has no statement that reports "no
\* stream found"; the property states the no-crash part.)
C3_EmptySearchDoesNotCrash ==
    ( dash.searchDone /\ dash.results = <<>> )
    => ( dash.pc # "crashed" /\ dash.error = "-" )

\* the calendar day of a commit
DayOf(c) == c.createdAt \div DayLen

TimelineShown == dash.pc \in {"timeline", "done"}

\* C4: for the fetched commits, the daily series holds every day from the
\* earliest to the latest commit day exactly once and no other day, in
\* ascending order, each with the number of commits created on that day.
C4_TimelineCalendarComplete ==
    TimelineShown
    => LET cs == dash.commits
           t == dash.shown.timeline
           days == { DayOf(cs[i]) : i \in 1..Len(cs) }
           lo == CHOOSE d \in days : \A e \in days : d <= e
           hi == CHOOSE d \in days : \A e \in days : d >= e
       IN  /\ \A d \in lo..hi : Cardinality({ k \in 1..Len(t) : t[k].date = d }) = 1
           /\ \A k \in 1..Len(t) : t[k].date \in lo..hi
           /\ \A k \in 1..(Len(t) - 1) : t[k].date < t[k + 1].date
           /\ \A k \in 1..Len(t) :
                 t[k].count = Cardinality({ i \in 1..Len(cs) : DayOf(cs[i]) = t[k].date })

\* commits on day 0 and day 2 only: three entries with counts 1, 0, 1
C4_Witness ==
    /\ dash.pc = "timeline"
    /\ Len(dash.commits) = 2
    /\ dash.shown.timeline =
         << [date |-> 0, count |-> 1], [date |-> 1, count |-> 0], [date |-> 2, count |-> 1] >>

ConnectorShown ==
    dash.pc \in {"connector_card", "contributor_card", "branch_graph", "connector_chart",
                 "collaborator_chart", "timeline", "done"}

\* C5: the connector count is the number of different sourceApplication
\* values of the fetched commits, and the names list holds each of them
\* exactly once, ordered by first occurrence among the commits.
C5_DistinctConnectors ==
    ConnectorShown
    => LET cs == dash.commits
           names == dash.shown.connectorNames
           apps == { cs[i].sourceApplication : i \in 1..Len(cs) }
           first(a) == CHOOSE i \in 1..Len(cs) :
                          /\ cs[i].sourceApplication = a
                          /\ \A j \in 1..(i - 1) : cs[j].sourceApplication # a
       IN  /\ dash.shown.connectorCount = Cardinality(apps)
           /\ \A a \in apps : Cardinality({ k \in 1..Len(names) : names[k] = a }) = 1
           /\ \A k \in 1..Len(names) : names[k] \in apps
           /\ \A j, k \in 1..Len(names) : j < k => first(names[j]) < first(names[k])

C5_Witness ==
    /\ dash.pc = "connector_card"
    /\ [i \in 1..Len(dash.commits) |-> dash.commits[i].sourceApplication]
         = <<"Rhino", "Rhino", "Grasshopper">>
    /\ dash.shown.connectorCount = 2
    /\ dash.shown.connectorNames = <<"Rhino", "Grasshopper">>

ContributorShown ==
    dash.pc \in {"contributor_card", "branch_graph", "connector_chart",
                 "collaborator_chart", "timeline", "done"}

\* C8: the displayed number of contributors equals the number of entries of
\* the displayed contributor names list.
C8_ContributorCountIsDistinct ==
    ContributorShown
    => dash.shown.contributorCount = Len(dash.shown.contributorNames)

\* the remote calls of a run, in the order of the script
CallOrder ==
    <<"authenticate", "stream.list", "stream.search", "branch.list", "commit.list">>

IsPrefix(a, b) == Len(a) <= Len(b) /\ \A i \in 1..Len(a) : a[i] = b[i]

\* a remote call of the run raised
CallFailed == dash.pc = "crashed" /\ dash.error \in {"ServiceError", "TrackingError"}

\* C11: the remote calls made so far are always a prefix of authenticate,
\* list streams, search, list branches, list commits (so each is made at most
\* once, in that order, none before authentication), the commits are asked
\* for with limit 100, and once a call has failed no call is added.
C11_CallsInOrder ==
    /\ [](/\ IsPrefix(dash.calls, CallOrder)
          /\ (Len(dash.calls) = Len(CallOrder) => dash.commitLimit = "100"))
    /\ [][CallFailed => dash'.calls = dash.calls]_vars

C11_Witness ==
    /\ dash.calls = CallOrder
    /\ dash.commitLimit = "100"
    /\ dash.pc = "done"

\* C12: a grant_permission call rejected with UnsupportedException has emitted
\* exactly one tracking event, in the permission category, named "add" and
\* carrying the role, and has handed no request to the Request Executor.
C12_RejectedCallHasTracked ==
    ( lastCall.op = "grant_permission" /\ lastCall.error = "UnsupportedException" )
    => ( /\ lastCall.events =
              << [category |-> "PERMISSION", name |-> "add", role |-> lastCall.args.role] >>
         /\ lastCall.requests = <<>> )

C12_Witness ==
    /\ lastCall.op = "grant_permission"
    /\ server_version = [kind |-> "num", parts |-> <<2, 6, 4>>]
    /\ lastCall.error = "UnsupportedException"
    /\ Len(lastCall.events) = 1

\* the blocks of the script after the viewer
StatStages ==
    {"branch_card", "commit_card", "connector_card", "contributor_card", "branch_graph",
     "connector_chart", "collaborator_chart", "timeline", "done"}

\* C13: a statistic or chart is produced only with at least one fetched
\* commit; when the commit list fetched is empty the run stops at the viewer
\* with IndexError, nothing displayed.
C13_StatsNeedACommit ==
    /\ dash.pc \in StatStages => dash.commits # <<>>
    /\ dash.shown # NoShown => dash.commits # <<>>
    /\ ( /\ dash.calls = CallOrder
         /\ dash.commits = <<>>
         /\ ~CallFailed
         /\ dash.pc # "fetched" )
       => ( dash.pc = "crashed" /\ dash.error = "IndexError" /\ dash.shown = NoShown )

C13_Witness ==
    /\ dash.calls = CallOrder
    /\ dash.commits = <<>>
    /\ dash.pc = "crashed"
    /\ dash.error = "IndexError"
    /\ dash.shown = NoShown

====
